---- MODULE Spec2Model ----
(***************************************************************************)
(* The chat route of routes/chat.js as a state machine.                    *)
(*                                                                         *)
(* Every request is one run of the async handler of router.post.  The     *)
(* handler is suspended only at an await; the code between two awaits is  *)
(* one atomic step of the event loop.  A request's pc names the await it  *)
(* is suspended at, and each action is "that call returns (or fails) and  *)
(* the handler runs on to its next await or to its response".             *)
(* What a collaborator (NLU, SQLite, trading backend, generative model)   *)
(* returns is an input, drawn from a small set.                           *)
(***************************************************************************)
EXTENDS Integers, Sequences, FiniteSets, TLC

(* ------------------------------ bounds -------------------------------- *)
\* requests that arrive during one behaviour
MaxRequests == 2
\* prices a crypto_prices row can carry: 1..MaxPrice
MaxPrice == 2
\* balances a fetched wallet can carry: 1..MaxBalance
MaxBalance == 2
\* quantities a portfolio asset can carry: 1..MaxHeld
MaxHeld == 2
\* completed turns of user tokA in the pre-filled initial session
PastTurns == 9

(* ------------------------- program constants -------------------------- *)
HistoryCap == 20
NewsLimit == 5
PromptEntries == 10
QuantityDigits == 8

(* ------------------------------ values -------------------------------- *)
Null == "<null>"
Undefined == "<undefined>"
Truthy(v) == v \notin {Null, Undefined, ""}

Slots == {"r1", "r2"}
ClientIp == "ip1"
AuthHeaders == {Undefined, "tokA"}
UserIds == {"tokA", ClientIp}

Min(S) == CHOOSE x \in S : \A y \in S : x <= y
Max(S) == CHOOSE x \in S : \A y \in S : x >= y
RECURSIVE Pow10(_)
Pow10(n) == IF n = 0 THEN 1 ELSE 10 * Pow10(n - 1)

\* String.prototype.toLowerCase on the strings that occur
ToLowerCase(t) ==
  CASE t = "BUY" -> "buy"
    [] t = "BTC" -> "btc"
    [] t = "ETH" -> "eth"
    [] t = "Bitcoin" -> "bitcoin"
    [] t = "Ethereum" -> "ethereum"
    [] t = "Price" -> "price"
    [] OTHER -> t

\* String.prototype.includes, on a text held as its sequence of words
Includes(words, kw) ==
  \E i \in 1..(Len(words) - Len(kw) + 1) : SubSeq(words, i, i + Len(kw) - 1) = kw

(* ----------------------------- requests ------------------------------- *)
\* req.body.message: absent, a string (its words), or a JSON number
Str(words) == [kind |-> "string", words |-> words]
Messages ==
  { [kind |-> "missing", words |-> <<>>],
    Str(<<>>),
    [kind |-> "number", words |-> <<>>],
    Str(<<"latest", "news">>),
    Str(<<"buy", "2", "news">>),
    Str(<<"BUY">>),
    Str(<<"buy", "2">>),
    Str(<<"buy", "2", "usd">>),
    Str(<<"sell", "2">>),
    Str(<<"sell", "2", "worth">>),
    Str(<<"am", "i", "holding">>),
    Str(<<"price">>),
    Str(<<"wallet">>) }

\* conversationMemory is a plain object: the key "__proto__" names
\* Object.prototype, from which every session object inherits
ObjectPrototype == "__proto__"

\* What a request can carry.  Slot r1 takes any message with or without a
\* credential; slot r2, the request that overlaps it, is tokA's plain BUY.
\* The header "__proto__" is sent in the runs that hold Object.prototype.
Arrivals(s, mem) ==
  IF s = "r1" THEN Messages \X (AuthHeaders \cup (DOMAIN mem \cap {ObjectPrototype}))
  ELSE {<<Str(<<"buy", "2">>), "tokA">>}

\* message.toLowerCase().trim()
CleanMessage(message) == [i \in 1..Len(message.words) |-> ToLowerCase(message.words[i])]

NumberTokens == {"1", "2"}
ParseFloat(t) == CASE t = "1" -> 1 [] t = "2" -> 2 [] OTHER -> 0
NoMatch == ""
\* cleanMessage.match(/(\d+(\.\d+)?)/): the first number of the text
AmountMatch(cm) ==
  LET idx == {i \in 1..Len(cm) : cm[i] \in NumberTokens}
  IN  IF idx = {} THEN NoMatch ELSE cm[Min(idx)]

IsNewsQuery(cm) ==
  Includes(cm, <<"news">>) \/ Includes(cm, <<"headlines">>) \/ Includes(cm, <<"latest", "news">>)
IsTradeQuery(authHeader, cm) ==
  Truthy(authHeader) /\ (Includes(cm, <<"buy">>) \/ Includes(cm, <<"sell">>))
OrderType(cm) == IF Includes(cm, <<"buy">>) THEN "BUY" ELSE "SELL"
IsDollar(cm) ==
  Includes(cm, <<"dollar">>) \/ Includes(cm, <<"usd">>) \/ Includes(cm, <<"worth">>)
IsHoldingQuery(coinName, authHeader, cm) ==
  /\ Truthy(coinName)
  /\ Truthy(authHeader)
  /\ (Includes(cm, <<"holding">>) \/ Includes(cm, <<"am", "i", "holding">>))
SensitiveKeywords == {"profile", "portfolio", "orders", "wallet", "transaction"}
IncludeUserData(cm) == \E k \in SensitiveKeywords : Includes(cm, <<k>>)

\* const userId = authHeader || req.ip
UserIdOf(authHeader) == IF Truthy(authHeader) THEN authHeader ELSE ClientIp

(* ------------------------- conversation memory ------------------------ *)
NoSession == [exists |-> FALSE, history |-> <<>>, lastCoin |-> Undefined]
NewSession == [exists |-> TRUE, history |-> <<>>, lastCoin |-> Undefined]
\* a history entry: "User: <text>" or "Bot: <text>", the text held as the ordinal of
\* its turn in the session
Entry(who, turn) == [who |-> who, turn |-> turn]
NextTurn(history) == IF history = <<>> THEN 1 ELSE history[Len(history)].turn + 1

\* Array.prototype.slice(-n)
SliceLast(h, n) == IF Len(h) > n THEN SubSeq(h, Len(h) - n + 1, Len(h)) ELSE h

\* a truncation one entry short: slice(-19)
updateConversationMemoryOddCut(mem, userId) ==
  LET turn == NextTurn(mem[userId].history)
      pushed == mem[userId].history \o <<Entry("User", turn), Entry("Bot", turn)>>
  IN  [mem EXCEPT ![userId].history =
         IF Len(pushed) > HistoryCap THEN SliceLast(pushed, HistoryCap - 1) ELSE pushed]

\* a truncation that keeps the first entries: slice(0, 20)
updateConversationMemoryKeepFirst(mem, userId) ==
  LET turn == NextTurn(mem[userId].history)
      pushed == mem[userId].history \o <<Entry("User", turn), Entry("Bot", turn)>>
  IN  [mem EXCEPT ![userId].history =
         IF Len(pushed) > HistoryCap THEN SubSeq(pushed, 1, HistoryCap) ELSE pushed]

\* lines 15-25
updateConversationMemory(mem, userId) ==
  LET turn == NextTurn(mem[userId].history)
      pushed == mem[userId].history \o <<Entry("User", turn), Entry("Bot", turn)>>
  IN  [mem EXCEPT ![userId].history =
         IF Len(pushed) > HistoryCap THEN SliceLast(pushed, HistoryCap) ELSE pushed]

\* conversationMemory[userId].lastCoin: the session's own property, or the
\* one it inherits from Object.prototype
LastCoin(mem, userId) ==
  IF mem[userId].lastCoin # Undefined THEN mem[userId].lastCoin
  ELSE IF ObjectPrototype \in DOMAIN mem THEN mem[ObjectPrototype].lastCoin
  ELSE Undefined

\* lines 167-171: the session is created on the first valid message
SeedSession(mem, userId) ==
  IF mem[userId].exists THEN mem ELSE [mem EXCEPT ![userId] = NewSession]

(* ---------------------------- collaborators --------------------------- *)
\* what model.generateContent answers to the coin-extraction prompt
NluError == "<error>"
NluOutputs == {NluError, "unknown", "", "BTC", "doge"}
extractCoinName(out) ==
  IF out = NluError THEN Null
  ELSE LET coinName == ToLowerCase(out)
       IN  IF coinName = "unknown" THEN Null ELSE coinName

\* what it answers to the intent prompt
Intents == {"price", "market_cap", "volume", "change", "general"}
IntentOutputs == {NluError, "Price", "market_cap", "volume", "change", "general", "other"}
detectIntent(out) ==
  IF out = NluError THEN "general"
  ELSE IF ToLowerCase(out) \in Intents THEN ToLowerCase(out) ELSE "general"

\* the coins the market-data store and the trading backend know
Coins ==
  { [id |-> "bitcoin", name |-> "Bitcoin", symbol |-> "BTC"],
    [id |-> "ethereum", name |-> "Ethereum", symbol |-> "ETH"] }
Prices == 1..MaxPrice
NoRow == [found |-> FALSE, error |-> FALSE, name |-> "", symbol |-> "", price |-> 0]
DbError == [found |-> FALSE, error |-> TRUE, name |-> "", symbol |-> "", price |-> 0]
Row(c, p) == [found |-> TRUE, error |-> FALSE, name |-> c.name, symbol |-> c.symbol, price |-> p]
\* getCryptoData: the query fails, finds no row, or finds the latest row of a
\* coin whose lower-cased name or symbol equals the lower-cased key
getCryptoData(coinName) ==
  {DbError, NoRow} \cup
  { Row(c, p) : c \in {d \in Coins : ToLowerCase(d.name) = ToLowerCase(coinName)
                                     \/ ToLowerCase(d.symbol) = ToLowerCase(coinName)},
                p \in Prices }

\* getLatestNews: the crypto_news table is a set of published_at stamps
NewsTables == {{}, {1, 3}, 1..(NewsLimit + 1)}
RECURSIVE SortDesc(_)
SortDesc(S) == IF S = {} THEN <<>> ELSE <<Max(S)>> \o SortDesc(S \ {Max(S)})
getLatestNews(table, limit) ==
  LET rows == SortDesc(table) IN IF Len(rows) > limit THEN SubSeq(rows, 1, limit) ELSE rows

\* fetchUserWallet: null on any failure, else {id, balance}
NoWallet == [found |-> FALSE, balance |-> 0]
Wallets == {NoWallet} \cup {[found |-> TRUE, balance |-> b] : b \in 1..MaxBalance}

\* fetchUserPortfolio: null on any failure, else a list of assets
Asset(c, q) == [coin |-> c, quantity |-> q]
Bitcoin == CHOOSE c \in Coins : c.id = "bitcoin"
Ethereum == CHOOSE c \in Coins : c.id = "ethereum"
\* the portfolios told apart: empty, one coin, or Ethereum ahead of Bitcoin
PortfolioLists ==
  {<<>>, <<Asset(Ethereum, 1)>>}
    \cup {<<Asset(Bitcoin, q)>> : q \in 1..MaxHeld}
    \cup {<<Asset(Ethereum, 1), Asset(Bitcoin, q)>> : q \in 1..MaxHeld}
NoPortfolio == [found |-> FALSE, assets |-> <<>>]
Portfolios == {NoPortfolio} \cup {[found |-> TRUE, assets |-> l] : l \in PortfolioLists}
NoAsset == [found |-> FALSE, coinId |-> "", quantity |-> 0]
\* a lookup that compares the coin's name only
FindAssetByName(assets, coinName) ==
  LET idx == {i \in 1..Len(assets) : ToLowerCase(assets[i].coin.name) = coinName}
  IN  IF idx = {} THEN NoAsset
      ELSE [found |-> TRUE, coinId |-> assets[Min(idx)].coin.id,
            quantity |-> assets[Min(idx)].quantity]
\* portfolio.find(asset => name.toLowerCase() === coinName || symbol.toLowerCase() === coinName)
FindAsset(assets, coinName) ==
  LET idx == {i \in 1..Len(assets) :
                \/ ToLowerCase(assets[i].coin.name) = coinName
                \/ ToLowerCase(assets[i].coin.symbol) = coinName}
  IN  IF idx = {} THEN NoAsset
      ELSE [found |-> TRUE, coinId |-> assets[Min(idx)].coin.id,
            quantity |-> assets[Min(idx)].quantity]

(* ----------------------------- arithmetic ----------------------------- *)
\* JS numbers as exact fractions num/den
Frac(n, d) == [num |-> n, den |-> d]
Zero == Frac(0, 1)
Gt(a, b) == a.num * b.den > b.num * a.den
Lt(a, b) == a.num * b.den < b.num * a.den
Times(a, k) == Frac(a.num * k, a.den)
\* parseFloat(quantity.toFixed(8)), in units of 10^-8
ToFixed(q, digits) == (2 * q.num * Pow10(digits) + q.den) \div (2 * q.den)

\* lines 215-230
Quantity(orderType, isDollar, parsedNumber, price) ==
  IF orderType = "BUY" /\ isDollar THEN Frac(parsedNumber, price) ELSE Frac(parsedNumber, 1)
\* line 254
Cost(isDollar, parsedNumber, quantity, price) ==
  IF isDollar THEN Frac(parsedNumber, 1) ELSE Times(quantity, price)
\* a check that also rejects a cost equal to the balance
InsufficientBalanceAtEqual(cost, wallet) == ~Lt(cost, Frac(wallet.balance, 1))
\* a check with the comparison turned around
InsufficientBalanceInverted(cost, wallet) == Lt(cost, Frac(wallet.balance, 1))
\* line 255
InsufficientBalance(cost, wallet) == Gt(cost, Frac(wallet.balance, 1))
\* line 276
InsufficientQuantity(assetFound, quantity) == Lt(Frac(assetFound.quantity, 1), quantity)

(* ------------------------------- state -------------------------------- *)
VARIABLES
  conversationMemory,  \* userId -> session
  req,                 \* slot -> the request being handled there, with its locals
  arrived              \* requests received so far

vars == <<conversationMemory, req, arrived>>

NoOrder == [coinId |-> "", quantity |-> 0, orderType |-> ""]
IdleReq ==
  [ pc |-> "idle", message |-> [kind |-> "missing", words |-> <<>>],
    authHeader |-> Undefined,
    cleanMessage |-> <<>>,        \* message.toLowerCase().trim()
    extracted |-> Undefined,      \* what extractCoinName returned
    intentText |-> Undefined,     \* what the model answered to the intent prompt
    intent |-> Undefined,         \* what detectIntent returned
    coinName |-> Undefined,
    quantity |-> Zero,
    cryptoData |-> NoRow,
    wallet |-> NoWallet,
    assetFound |-> NoAsset,
    orderData |-> NoOrder,
    newsItems |-> <<>>,
    conversationHistory |-> <<>>, \* the history block of the prompt
    portfolio |-> NoPortfolio,
    status |-> 0, reply |-> "",
    responses |-> 0,              \* responses sent on res
    error |-> "",                 \* the error the outer catch caught
    branch |-> "",                \* the branch of the policy the request entered
    calls |-> {},                 \* the collaborators the request has called
    posts |-> 0 ]                 \* POSTs to /api/orders/pay the request has made

\* line 12: const conversationMemory = {}
Init ==
  /\ conversationMemory = [u \in UserIds |-> NoSession]
  /\ req = [s \in Slots |-> IdleReq]
  /\ arrived = 0

\* the server after PastTurns answered messages of tokA that named no coin
InitLong ==
  /\ conversationMemory =
       [u \in UserIds |->
          IF u = "tokA"
          THEN [exists |-> TRUE, lastCoin |-> Undefined,
                history |-> [i \in 1..(2 * PastTurns) |->
                               Entry(IF i % 2 = 1 THEN "User" ELSE "Bot", (i + 1) \div 2)]]
          ELSE NoSession]
  /\ req = [s \in Slots |-> IdleReq]
  /\ arrived = 0

\* the server as started, Object.prototype included: it exists before any
\* request and has neither history nor lastCoin
InitProto ==
  /\ conversationMemory =
       [u \in UserIds \cup {ObjectPrototype} |->
          IF u = ObjectPrototype THEN NewSession ELSE NoSession]
  /\ req = [s \in Slots |-> IdleReq]
  /\ arrived = 0

(* ------------------------ ends of a handler step ---------------------- *)
\* the handler is suspended at the next await
Await(s, r, mem, pc, called) ==
  /\ req' = [req EXCEPT ![s] = [r EXCEPT !.pc = pc, !.calls = @ \cup called]]
  /\ conversationMemory' = mem

\* a reply sent without recording the turn
ReplyUnrecorded(s, r, mem, reply) ==
  /\ req' = [req EXCEPT ![s] = [r EXCEPT !.pc = "done", !.responses = @ + 1,
                                         !.status = 200, !.reply = reply]]
  /\ conversationMemory' = mem

\* updateConversationMemory(userId, cleanMessage, reply); return res.json({ reply })
Reply(s, r, mem, reply) ==
  /\ req' = [req EXCEPT ![s] = [r EXCEPT !.pc = "done", !.responses = @ + 1, !.status = 200, !.reply = reply]]
  /\ conversationMemory' = updateConversationMemory(mem, UserIdOf(r.authHeader))

\* the outer catch: console.error("Chat Error:", error); res.status(500)
TypeError == "TypeError"
DatabaseError == "Database error."
NewsDatabaseError == "Database error fetching news."
GenerateError == "generateContent failed"
\* a catch that records the failed turn in the history
InternalErrorRecorded(s, r, mem, error) ==
  /\ req' = [req EXCEPT ![s] = [r EXCEPT !.pc = "done", !.responses = @ + 1, !.status = 500,
                                         !.reply = "Internal server error", !.error = error]]
  /\ conversationMemory' =
       IF mem[UserIdOf(r.authHeader)].exists
       THEN updateConversationMemory(mem, UserIdOf(r.authHeader)) ELSE mem
InternalError(s, r, mem, error) ==
  /\ req' = [req EXCEPT ![s] = [r EXCEPT !.pc = "done", !.responses = @ + 1, !.status = 500,
                                         !.reply = "Internal server error", !.error = error]]
  /\ conversationMemory' = mem

(* ------------------------------ replies ------------------------------- *)
AskAmount == "Please specify the amount to buy/sell."
AskCoin == "Please specify which coin you want to trade."
NoData == "Couldn't find data for the coin"
NoWalletReply == "Couldn't fetch wallet balance."
InsufficientBalanceReply == "Insufficient wallet balance to buy."
NoPortfolioReply == "Couldn't fetch your portfolio."
NotHolding == "You are not holding the coin."
InsufficientQuantityReply == "Insufficient quantity to sell."
OrderPlaced == "Order placed successfully"
OrderFailed == "Failed to place the order."
NewsList == "Here are the latest news headlines:"
NoNews == "No news available at the moment."
HoldingReply == "Yes, you are holding the coin"
Generated == "generated"
TradeReplies ==
  {AskAmount, AskCoin, NoData, NoWalletReply, InsufficientBalanceReply, NoPortfolioReply,
   NotHolding, InsufficientQuantityReply, OrderPlaced, OrderFailed}

(* ------------------------- the policy, in order ----------------------- *)
\* a default path that gathers the account context for the keyword alone
DefaultPathKeywordOnly(s, r0, mem) ==
  LET r == [r0 EXCEPT !.branch = "default"]
      cm == r.cleanMessage
  IN  IF IncludeUserData(cm)
      THEN Await(s, r, mem, "context", {"profile", "portfolio", "wallet"})
      ELSE Await(s, [r EXCEPT !.conversationHistory =
                       SliceLast(mem[UserIdOf(r.authHeader)].history, PromptEntries)],
                 mem, "generate", {"generate"})

\* lines 358-406: the default path up to its first await
DefaultPath(s, r0, mem) ==
  LET r == [r0 EXCEPT !.branch = "default"]
      cm == r.cleanMessage
  IN  IF Truthy(r.authHeader) /\ IncludeUserData(cm)
      THEN Await(s, r, mem, "context", {"profile", "portfolio", "wallet"})
      ELSE Await(s, [r EXCEPT !.conversationHistory =
                       SliceLast(mem[UserIdOf(r.authHeader)].history, PromptEntries)],
                 mem, "generate", {"generate"})

\* lines 283-296: build the order and POST it
PlaceOrder(s, r, mem) ==
  Await(s, [r EXCEPT !.orderData = [coinId |-> ToLowerCase(r.cryptoData.name),
                                    quantity |-> ToFixed(r.quantity, QuantityDigits),
                                    orderType |-> OrderType(r.cleanMessage)],
                     !.posts = @ + 1],
        mem, "post", {"order"})

\* lines 232-239: the coin check and the lookup that follows it
RequireCoin(s, r, mem) ==
  IF ~Truthy(r.coinName)
  THEN Reply(s, r, mem, AskCoin)
  ELSE Await(s, r, mem, "coinLookup", {"db"})

\* lines 200-230: the trade branch up to its first await
TradeBranch(s, r0, mem) ==
  LET r == [r0 EXCEPT !.branch = "trade"]
      cm == r.cleanMessage
      amountMatch == AmountMatch(cm)
  IN  IF amountMatch = NoMatch
      THEN Reply(s, r, mem, AskAmount)
      ELSE IF OrderType(cm) = "BUY" /\ IsDollar(cm)
           THEN \* getCryptoData(coinName) calls coinName.toLowerCase()
                IF r.coinName \in {Null, Undefined}
                THEN InternalError(s, r, mem, TypeError)
                ELSE Await(s, r, mem, "dollarLookup", {"db"})
           ELSE RequireCoin(s, [r EXCEPT !.quantity =
                                  Quantity(OrderType(cm), IsDollar(cm), ParseFloat(amountMatch), 1)],
                            mem)

\* a policy that tries the trade branch before the news branch
DispatchTradeFirst(s, r, mem) ==
  LET cm == r.cleanMessage
  IN  IF IsTradeQuery(r.authHeader, cm)
      THEN TradeBranch(s, r, mem)
      ELSE IF IsNewsQuery(cm)
      THEN Await(s, [r EXCEPT !.branch = "news"], mem, "news", {"news"})
      ELSE IF IsHoldingQuery(r.coinName, r.authHeader, cm)
      THEN Await(s, [r EXCEPT !.branch = "holdings"], mem, "holdPortfolio", {"portfolio"})
      ELSE IF Truthy(r.coinName)
      THEN Await(s, [r EXCEPT !.branch = "direct"], mem, "directLookup", {"db"})
      ELSE DefaultPath(s, r, mem)

\* lines 181-406: from the resolved coin to the first await of the branch taken
Dispatch(s, r, mem) ==
  LET cm == r.cleanMessage
  IN  IF IsNewsQuery(cm)
      THEN Await(s, [r EXCEPT !.branch = "news"], mem, "news", {"news"})
      ELSE IF IsTradeQuery(r.authHeader, cm)
      THEN TradeBranch(s, r, mem)
      ELSE IF IsHoldingQuery(r.coinName, r.authHeader, cm)
      THEN Await(s, [r EXCEPT !.branch = "holdings"], mem, "holdPortfolio", {"portfolio"})
      ELSE IF Truthy(r.coinName)
      THEN Await(s, [r EXCEPT !.branch = "direct"], mem, "directLookup", {"db"})
      ELSE DefaultPath(s, r, mem)

\* lines 175-179
ResolveCoin(extracted, lastCoin) ==
  IF Truthy(extracted) THEN extracted
  ELSE IF Truthy(lastCoin) THEN lastCoin ELSE extracted
\* a handler that keeps the first coin a session was given
RememberCoinFirst(mem, userId, extracted) ==
  IF Truthy(extracted) /\ ~Truthy(mem[userId].lastCoin)
  THEN [mem EXCEPT ![userId].lastCoin = extracted] ELSE mem
\* a handler that stores whatever the extraction returned
RememberCoinAlways(mem, userId, extracted) == [mem EXCEPT ![userId].lastCoin = extracted]
\* lines 175-176
RememberCoin(mem, userId, extracted) ==
  IF Truthy(extracted) THEN [mem EXCEPT ![userId].lastCoin = extracted] ELSE mem

(* ------------------------------ actions ------------------------------- *)
\* res.json and the handler's return are one synchronous step: a finished
\* request has left its slot before the event loop runs another continuation
Delivered == \A t \in Slots : req[t].pc # "done"

\* a handler that seeds the session before it validates the message
RejectMissingAfterSeed(s, r, mem) ==
  /\ req' = [req EXCEPT ![s] =
               [r EXCEPT !.pc = "done", !.responses = @ + 1, !.status = 400, !.reply = "Message is required"]]
  /\ conversationMemory' = SeedSession(mem, UserIdOf(r.authHeader))

\* line 162: if (!message) return res.status(400)
RejectMissing(s, r, mem) ==
  /\ req' = [req EXCEPT ![s] =
               [r EXCEPT !.pc = "done", !.responses = @ + 1, !.status = 400, !.reply = "Message is required"]]
  /\ conversationMemory' = mem

\* lines 158-174: a request arrives and runs to its first await
Receive(s) ==
  /\ req[s].pc = "idle"
  /\ Delivered
  /\ arrived < MaxRequests
  /\ arrived' = arrived + 1
  /\ \E arrival \in Arrivals(s, conversationMemory) :
       LET message == arrival[1]
           authHeader == arrival[2]
           r == [IdleReq EXCEPT !.message = message, !.authHeader = authHeader]
       IN  IF message.kind = "missing" \/ (message.kind = "string" /\ message.words = <<>>)
           THEN RejectMissing(s, r, conversationMemory)
           ELSE IF message.kind # "string"
           THEN \* message.toLowerCase is not a function
                InternalError(s, r, conversationMemory, TypeError)
           ELSE Await(s, [r EXCEPT !.cleanMessage = CleanMessage(message)],
                      SeedSession(conversationMemory, UserIdOf(authHeader)),
                      "extract", {"extract"})

\* lines 174-179, then the policy
ExtractReturn(s) ==
  /\ req[s].pc = "extract"
  /\ Delivered
  /\ UNCHANGED arrived
  /\ \E out \in NluOutputs :
       LET userId == UserIdOf(req[s].authHeader)
           extracted == extractCoinName(out)
           r == [req[s] EXCEPT !.extracted = extracted,
                               !.coinName = ResolveCoin(extracted, LastCoin(conversationMemory, userId))]
       IN  Dispatch(s, r, RememberCoin(conversationMemory, userId, extracted))

\* lines 183-195
NewsReturn(s) ==
  /\ req[s].pc = "news"
  /\ Delivered
  /\ UNCHANGED arrived
  /\ \/ InternalError(s, req[s], conversationMemory, NewsDatabaseError)   \* the query failed
     \/ \E table \in NewsTables :
          LET newsItems == getLatestNews(table, NewsLimit)
              r == [req[s] EXCEPT !.newsItems = newsItems]
          IN  IF Len(newsItems) > 0
              THEN Reply(s, r, conversationMemory, NewsList)
              ELSE Reply(s, r, conversationMemory, NoNews)

\* lines 218-236: the price lookup of a dollar BUY returns
DollarLookupReturn(s) ==
  /\ req[s].pc = "dollarLookup"
  /\ Delivered
  /\ UNCHANGED arrived
  /\ \E cryptoData \in getCryptoData(req[s].coinName) :
       IF cryptoData.error THEN InternalError(s, req[s], conversationMemory, DatabaseError)
       ELSE IF ~cryptoData.found THEN Reply(s, req[s], conversationMemory, NoData)
       ELSE LET cm == req[s].cleanMessage
            IN  RequireCoin(s, [req[s] EXCEPT !.quantity =
                                  Quantity(OrderType(cm), IsDollar(cm),
                                           ParseFloat(AmountMatch(cm)), cryptoData.price)],
                            conversationMemory)

\* lines 239-261: the coin's row returns; the wallet or the portfolio is fetched
CoinLookupReturn(s) ==
  /\ req[s].pc = "coinLookup"
  /\ Delivered
  /\ UNCHANGED arrived
  /\ \E cryptoData \in getCryptoData(req[s].coinName) :
       IF cryptoData.error THEN InternalError(s, req[s], conversationMemory, DatabaseError)
       ELSE IF ~cryptoData.found THEN Reply(s, req[s], conversationMemory, NoData)
       ELSE LET r == [req[s] EXCEPT !.cryptoData = cryptoData]
            IN  IF OrderType(r.cleanMessage) = "BUY"
                THEN Await(s, r, conversationMemory, "wallet", {"wallet"})
                ELSE Await(s, r, conversationMemory, "sellPortfolio", {"portfolio"})

\* lines 248-259, then the order
BalanceCheck(s, r, mem) ==
  LET cm == r.cleanMessage
      cost == Cost(IsDollar(cm), ParseFloat(AmountMatch(cm)), r.quantity, r.cryptoData.price)
  IN  IF ~r.wallet.found THEN Reply(s, r, mem, NoWalletReply)
      ELSE IF InsufficientBalance(cost, r.wallet) THEN Reply(s, r, mem, InsufficientBalanceReply)
      ELSE PlaceOrder(s, r, mem)

WalletReturn(s) ==
  /\ req[s].pc = "wallet"
  /\ Delivered
  /\ UNCHANGED arrived
  /\ \E wallet \in Wallets :
       BalanceCheck(s, [req[s] EXCEPT !.wallet = wallet], conversationMemory)

\* lines 261-281, then the order
HoldingsCheck(s, r, mem) ==
  IF ~r.portfolio.found THEN Reply(s, r, mem, NoPortfolioReply)
  ELSE LET assetFound == FindAsset(r.portfolio.assets, r.coinName)
           r1 == [r EXCEPT !.assetFound = assetFound]
       IN  IF ~assetFound.found THEN Reply(s, r1, mem, NotHolding)
           ELSE IF InsufficientQuantity(assetFound, r.quantity)
           THEN Reply(s, r1, mem, InsufficientQuantityReply)
           ELSE PlaceOrder(s, r1, mem)

SellPortfolioReturn(s) ==
  /\ req[s].pc = "sellPortfolio"
  /\ Delivered
  /\ UNCHANGED arrived
  /\ \E portfolio \in Portfolios :
       HoldingsCheck(s, [req[s] EXCEPT !.portfolio = portfolio], conversationMemory)

\* a handler that retries a failed POST
OnOrderErrorRetry(s, r, mem) ==
  Await(s, [r EXCEPT !.posts = @ + 1], mem, "post", {"order"})

\* lines 300-304: the POST failed
OnOrderError(s, r, mem) == Reply(s, r, mem, OrderFailed)

\* lines 292-305
OrderReturn(s) ==
  /\ req[s].pc = "post"
  /\ Delivered
  /\ UNCHANGED arrived
  /\ \/ Reply(s, req[s], conversationMemory, OrderPlaced)
     \/ OnOrderError(s, req[s], conversationMemory)

\* lines 311-331: the portfolio of a holdings query returns
HoldPortfolioReturn(s) ==
  /\ req[s].pc = "holdPortfolio"
  /\ Delivered
  /\ UNCHANGED arrived
  /\ \E portfolio \in Portfolios :
       IF ~portfolio.found
       THEN Reply(s, [req[s] EXCEPT !.portfolio = portfolio], conversationMemory, NoPortfolioReply)
       ELSE LET assetFound == FindAsset(portfolio.assets, req[s].coinName)
                r == [req[s] EXCEPT !.portfolio = portfolio, !.assetFound = assetFound]
            IN  IF assetFound.found
                THEN Await(s, r, conversationMemory, "holdLookup", {"db"})
                ELSE Reply(s, r, conversationMemory, NotHolding)

\* lines 321-326: getCryptoData(assetFound.coin.id) returns
HoldLookupReturn(s) ==
  /\ req[s].pc = "holdLookup"
  /\ Delivered
  /\ UNCHANGED arrived
  /\ \E coinData \in getCryptoData(req[s].assetFound.coinId) :
       IF coinData.error THEN InternalError(s, req[s], conversationMemory, DatabaseError)
       ELSE Reply(s, [req[s] EXCEPT !.cryptoData = coinData], conversationMemory, HoldingReply)

\* lines 336-355
DirectLookupReturn(s) ==
  /\ req[s].pc = "directLookup"
  /\ Delivered
  /\ UNCHANGED arrived
  /\ \E cryptoData \in getCryptoData(req[s].coinName) :
       IF cryptoData.error THEN InternalError(s, req[s], conversationMemory, DatabaseError)
       ELSE IF cryptoData.found
       THEN Await(s, [req[s] EXCEPT !.cryptoData = cryptoData], conversationMemory,
                  "intent", {"intent"})
       ELSE Reply(s, req[s], conversationMemory, NoData)

\* a table whose general entry is a reply too
ResponsesGeneralAnswered(intent) ==
  IF intent \in Intents THEN intent ELSE Undefined

\* lines 339-345: the templated reply of an intent, held as the intent's
\* name; general maps to null and any other key is absent
Responses(intent) ==
  IF intent \in {"price", "market_cap", "volume", "change"} THEN intent
  ELSE IF intent = "general" THEN Null ELSE Undefined

\* lines 338-350, and the fall-through to the default path
IntentReturn(s) ==
  /\ req[s].pc = "intent"
  /\ Delivered
  /\ UNCHANGED arrived
  /\ \E out \in IntentOutputs :
       LET intent == detectIntent(out)
           r == [req[s] EXCEPT !.intentText = out, !.intent = intent]
       IN  IF Truthy(Responses(intent))
           THEN Reply(s, r, conversationMemory, Responses(intent))
           ELSE DefaultPath(s, r, conversationMemory)

\* lines 372-397: profile, portfolio and wallet have all returned
ContextReturn(s) ==
  /\ req[s].pc = "context"
  /\ Delivered
  /\ UNCHANGED arrived
  /\ \E portfolio \in {NoPortfolio, [found |-> TRUE, assets |-> <<>>],
                        [found |-> TRUE, assets |-> <<Asset(Bitcoin, 1)>>]} :
       IF portfolio.found /\ Len(portfolio.assets) > 0
       THEN Await(s, req[s], conversationMemory, "details", {"db"})
       ELSE Await(s, [req[s] EXCEPT !.conversationHistory =
                        SliceLast(conversationMemory[UserIdOf(req[s].authHeader)].history,
                                  PromptEntries)],
                  conversationMemory, "generate", {"generate"})

\* lines 383-397: the price lookups of the portfolio details have all returned
DetailsReturn(s) ==
  /\ req[s].pc = "details"
  /\ Delivered
  /\ UNCHANGED arrived
  /\ \/ InternalError(s, req[s], conversationMemory, DatabaseError)   \* a query failed
     \/ Await(s, [req[s] EXCEPT !.conversationHistory =
                     SliceLast(conversationMemory[UserIdOf(req[s].authHeader)].history,
                               PromptEntries)],
              conversationMemory, "generate", {"generate"})

\* lines 406-413
GenerateReturn(s) ==
  /\ req[s].pc = "generate"
  /\ Delivered
  /\ UNCHANGED arrived
  /\ \/ InternalError(s, req[s], conversationMemory, GenerateError)
     \/ Reply(s, req[s], conversationMemory, Generated)

\* the response has been sent and the handler has returned
Release(s) ==
  /\ req[s].pc = "done"
  /\ req' = [req EXCEPT ![s] = IdleReq]
  /\ UNCHANGED <<conversationMemory, arrived>>

Next ==
  \E s \in Slots :
    \/ Receive(s)
    \/ ExtractReturn(s)
    \/ NewsReturn(s)
    \/ DollarLookupReturn(s)
    \/ CoinLookupReturn(s)
    \/ WalletReturn(s)
    \/ SellPortfolioReturn(s)
    \/ OrderReturn(s)
    \/ HoldPortfolioReturn(s)
    \/ HoldLookupReturn(s)
    \/ DirectLookupReturn(s)
    \/ IntentReturn(s)
    \/ ContextReturn(s)
    \/ DetailsReturn(s)
    \/ GenerateReturn(s)
    \/ Release(s)

Spec == Init /\ [][Next]_vars
SpecLong == InitLong /\ [][Next]_vars
SpecProto == InitProto /\ [][Next]_vars

\* the step a pending request takes next: the return of the call it awaits,
\* or the end of its run once the response is sent
Resume(s) ==
  \/ ExtractReturn(s) \/ NewsReturn(s) \/ DollarLookupReturn(s) \/ CoinLookupReturn(s)
  \/ WalletReturn(s) \/ SellPortfolioReturn(s) \/ OrderReturn(s)
  \/ HoldPortfolioReturn(s) \/ HoldLookupReturn(s) \/ DirectLookupReturn(s)
  \/ IntentReturn(s) \/ ContextReturn(s) \/ DetailsReturn(s) \/ GenerateReturn(s)
  \/ Release(s)
\* every collaborator call eventually returns or fails: a request awaits one
\* call at a time, so its next step stays enabled until it is taken
Fairness == \A s \in Slots : WF_vars(Resume(s))
\* the server with two requests still to come: those before them were
\* refused for want of a message and left no trace
InitFair ==
  /\ conversationMemory = [u \in UserIds |-> NoSession]
  /\ req = [s \in Slots |-> IdleReq]
  /\ arrived = MaxRequests - 2
SpecFair == InitFair /\ [][Next]_vars /\ Fairness

(* ============================== claims ================================ *)
InFlight(s) == req[s].pc # "idle"
Done(s) == req[s].pc = "done"
Clean(s) == req[s].cleanMessage
IsBuy(s) == req[s].branch = "trade" /\ Includes(Clean(s), <<"buy">>)
IsSell(s) == req[s].branch = "trade" /\ ~Includes(Clean(s), <<"buy">>)
Amount(s) == ParseFloat(AmountMatch(Clean(s)))

\* C1: a request POSTs at most one order; while the POST is in flight it has
\* made exactly one; a request that answered with the order's outcome
\* (placed or failed) has finished with status 200 after exactly one POST,
\* and any request that made a POST ends with one of these two replies.
C1_SingleSubmission ==
  \A s \in Slots :
    /\ req[s].posts <= 1
    /\ req[s].pc = "post" => req[s].posts = 1
    /\ req[s].posts = 1 => req[s].pc \in {"post", "done"}
    /\ req[s].reply \in {OrderPlaced, OrderFailed}
         => Done(s) /\ req[s].status = 200 /\ req[s].posts = 1
    /\ Done(s) /\ req[s].posts = 1 => req[s].reply \in {OrderPlaced, OrderFailed}

\* a request whose only POST failed has replied with the failure text
C1_Witness ==
  \E s \in Slots : Done(s) /\ req[s].reply = OrderFailed /\ req[s].posts = 1

\* the cost of a BUY and its comparison with the fetched balance, as the claim words them
C2_CostNum(s) ==
  IF IsDollar(Clean(s)) THEN Amount(s) * req[s].quantity.den
  ELSE req[s].quantity.num * req[s].cryptoData.price
C2_Exceeds(s) == C2_CostNum(s) > req[s].wallet.balance * req[s].quantity.den
\* C2: a BUY that fetched the wallet: when the wallet could not be fetched, or
\* the cost (the amount when dollar-denominated, else quantity x price)
\* exceeds the balance, no order is POSTed and the reply is the wallet
\* message or the insufficient-balance message; when the cost is at or below
\* the balance the order is POSTed.
C2_BalanceGate ==
  \A s \in Slots :
    IsBuy(s) /\ "wallet" \in req[s].calls /\ req[s].pc \in {"post", "done"} =>
      /\ ~req[s].wallet.found
           => req[s].posts = 0 /\ req[s].reply = NoWalletReply /\ req[s].status = 200
      /\ req[s].wallet.found /\ C2_Exceeds(s)
           => req[s].posts = 0 /\ req[s].reply = InsufficientBalanceReply /\ req[s].status = 200
      /\ req[s].wallet.found /\ ~C2_Exceeds(s) => req[s].posts = 1

\* one BUY was refused for its cost while another, whose cost equals the
\* balance it fetched, has POSTed its order
C2_Witness ==
  \E s, t \in Slots :
    /\ IsBuy(s) /\ Done(s) /\ req[s].reply = InsufficientBalanceReply /\ C2_Exceeds(s)
    /\ IsBuy(t) /\ req[t].posts = 1 /\ req[t].wallet.found
    /\ C2_CostNum(t) = req[t].wallet.balance * req[t].quantity.den

\* the assets of the fetched portfolio that carry the resolved coin
C3_Held(s) ==
  {i \in 1..Len(req[s].portfolio.assets) :
     \/ ToLowerCase(req[s].portfolio.assets[i].coin.name) = req[s].coinName
     \/ ToLowerCase(req[s].portfolio.assets[i].coin.symbol) = req[s].coinName}
C3_HeldQuantity(s) == req[s].portfolio.assets[Min(C3_Held(s))].quantity
\* C3: a SELL that fetched the portfolio: no asset with the coin's name or
\* symbol gives the not-holding reply and no POST; an asset held in a
\* quantity below the requested one gives the insufficient-quantity reply
\* and no POST; the order is POSTed only when the held quantity is at least
\* the requested one.
C3_HoldingsGate ==
  \A s \in Slots :
    IsSell(s) /\ req[s].portfolio.found /\ req[s].pc \in {"post", "done"} =>
      /\ C3_Held(s) = {}
           => req[s].posts = 0 /\ req[s].reply = NotHolding /\ req[s].status = 200
      /\ C3_Held(s) # {} /\ C3_HeldQuantity(s) < Amount(s)
           => req[s].posts = 0 /\ req[s].reply = InsufficientQuantityReply /\ req[s].status = 200
      /\ req[s].posts = 1 => C3_Held(s) # {} /\ C3_HeldQuantity(s) >= Amount(s)
      /\ C3_Held(s) # {} /\ C3_HeldQuantity(s) >= Amount(s) => req[s].posts = 1

\* a SELL of a coin matched by its symbol, held in exactly the requested
\* quantity, has POSTed its order
C3_Witness ==
  \E s \in Slots :
    /\ IsSell(s) /\ req[s].posts = 1 /\ req[s].coinName = "btc"
    /\ C3_Held(s) # {} /\ C3_HeldQuantity(s) = Amount(s)

\* C4: a request in the trade branch with an amount and no resolved coin,
\* BUY or SELL, dollar-denominated or not, ends with status 200, the reply
\* asking for the coin, and no POST.
C4_CoinPrompt ==
  \A s \in Slots :
    /\ Done(s) /\ req[s].branch = "trade"
    /\ AmountMatch(Clean(s)) # NoMatch
    /\ ~Truthy(req[s].coinName)
    => req[s].status = 200 /\ req[s].reply = AskCoin /\ req[s].posts = 0

\* the calls that go to the trading backend
AccountCalls == {"profile", "portfolio", "wallet", "order"}
\* C5: in the news, trade, holdings and direct branches a failed market-data
\* read is absorbed: a request of these branches whose query failed still
\* ends with status 200.
C5_ReadFailuresAbsorbed ==
  \A s \in Slots :
    /\ Done(s) /\ req[s].branch \in {"news", "trade", "holdings", "direct"}
    /\ req[s].error \in {DatabaseError, NewsDatabaseError}
    => req[s].status = 200

\* the keywords a message carries, read off its words
C6_Resolved(s) == req[s].message.kind = "string" /\ req[s].pc \notin {"idle", "extract"}
C6_News(s) == \E k \in {"news", "headlines"} : \E i \in 1..Len(Clean(s)) : Clean(s)[i] = k
C6_Trade(s) ==
  req[s].authHeader = "tokA" /\ \E i \in 1..Len(Clean(s)) : Clean(s)[i] \in {"buy", "sell"}
C6_Holdings(s) ==
  /\ req[s].authHeader = "tokA" /\ req[s].coinName \in {"btc", "doge"}
  /\ \E i \in 1..Len(Clean(s)) : Clean(s)[i] = "holding"
\* C6: the branches are tried in the order news, trade, holdings, direct,
\* default, and the first match is final.  A message with a news keyword
\* never makes a POST or an account call and enters no branch but news; an
\* authenticated message with buy or sell and no news keyword, once its
\* coin is resolved, is in the trade branch, never calls the intent
\* classifier, the profile read or the generative model, and its 200 reply
\* is a reply of the trade branch; a holdings message with coin and
\* credential (no news, buy or sell) is in the holdings branch and is never
\* answered from the direct branch or the generative path.
C6_BranchOrder ==
  \A s \in Slots :
    C6_Resolved(s) =>
      /\ C6_News(s) =>
            /\ req[s].branch = "news"
            /\ req[s].posts = 0
            /\ req[s].calls \cap AccountCalls = {}
            /\ req[s].calls \subseteq {"extract", "news"}
      /\ ~C6_News(s) /\ C6_Trade(s) =>
            /\ req[s].branch = "trade"
            /\ req[s].calls \cap {"news", "intent", "profile", "generate"} = {}
            /\ req[s].status = 200 => req[s].reply \in TradeReplies
      /\ ~C6_News(s) /\ ~C6_Trade(s) /\ C6_Holdings(s) =>
            /\ req[s].branch = "holdings"
            /\ req[s].calls \cap {"news", "intent", "generate", "order"} = {}
            /\ req[s].status = 200 => req[s].reply \in {NoPortfolioReply, NotHolding, HoldingReply}

\* an authenticated message with both buy and a news keyword was answered
\* with the news list
C6_Witness ==
  \E s \in Slots :
    /\ Done(s) /\ C6_News(s) /\ C6_Trade(s)
    /\ req[s].reply = NewsList /\ req[s].status = 200

\* a message that is missing or the empty string
C7_Empty(m) == m.kind = "missing" \/ (m.kind = "string" /\ Len(m.words) = 0)
\* C7: the step that receives a request whose message is missing or empty
\* ends it with status 400, has called no collaborator and leaves every
\* session, existing or not, as it was.
C7_MissingMessage ==
  [][ \A s \in Slots :
        req[s].pc = "idle" /\ req'[s].pc # "idle" /\ C7_Empty(req'[s].message) =>
          /\ req'[s].pc = "done" /\ req'[s].status = 400
          /\ req'[s].calls = {} /\ req'[s].posts = 0
          /\ conversationMemory' = conversationMemory ]_vars

\* a request without message was refused while its user has no session
C7_Witness ==
  \E s \in Slots :
    /\ Done(s) /\ req[s].status = 400 /\ C7_Empty(req[s].message)
    /\ ~conversationMemory[UserIdOf(req[s].authHeader)].exists

\* h2 is h with one pair appended and cut to its last 20 entries
C8_Appended(h, h2) ==
  LET turn == IF Len(h) = 0 THEN 1 ELSE h[Len(h)].turn + 1
      full == h \o <<[who |-> "User", turn |-> turn], [who |-> "Bot", turn |-> turn]>>
      n == IF Len(full) > 20 THEN 20 ELSE Len(full)
  IN  /\ Len(h2) = n
      /\ \A i \in 1..n : h2[i] = full[Len(full) - n + i]
\* C8: a user's history never holds more than 20 entries; the step that
\* answers a request with status 200 appends one User/Bot pair to its user's
\* history and removes exactly the oldest entries beyond 20, the others
\* keeping their order; and the history changes in no other way.
C8_HistoryBound ==
  /\ [](\A u \in UserIds : Len(conversationMemory[u].history) <= 20)
  /\ [][ /\ \A u \in UserIds :
              \/ conversationMemory'[u].history = conversationMemory[u].history
              \/ C8_Appended(conversationMemory[u].history, conversationMemory'[u].history)
         /\ \A s \in Slots :
              req[s].pc # "done" /\ req'[s].pc = "done" /\ req'[s].status = 200 =>
                LET v == IF req'[s].authHeader = "tokA" THEN "tokA" ELSE "ip1"
                IN  C8_Appended(conversationMemory[v].history, conversationMemory'[v].history) ]_vars

\* the second of two requests of tokA has just been answered and the
\* history, full, has lost its oldest pair
C8_Witness ==
  /\ arrived = 2
  /\ \E s \in Slots : Done(s) /\ req[s].status = 200 /\ req[s].authHeader = "tokA"
  /\ Len(conversationMemory["tokA"].history) = 20
  /\ conversationMemory["tokA"].history[1] = [who |-> "User", turn |-> 2]
  /\ conversationMemory["tokA"].history[20].turn = 11

\* a coin name, and the step at which the extraction of request s returns
C9_IsCoin(c) == c \in {"btc", "doge"}
C9_ExtractionReturns(s) == req[s].pc = "extract" /\ req'[s].pc # "extract"
\* C9: the step at which a request's coin extraction returns writes lastCoin
\* exactly when it returned a coin, and no other step changes the lastCoin
\* of an existing session; the request goes on with the extracted coin,
\* or, when none was extracted, with the lastCoin its user's session holds,
\* which is the coin of the previous turn's extraction.
C9_LastCoin ==
  [][ /\ \A s \in Slots :
          C9_ExtractionReturns(s) =>
            LET u == IF req[s].authHeader = "tokA" THEN "tokA" ELSE "ip1"
                before == conversationMemory[u].lastCoin
                after == conversationMemory'[u].lastCoin
            IN  /\ C9_IsCoin(req'[s].extracted)
                     => after = req'[s].extracted /\ req'[s].coinName = req'[s].extracted
                /\ ~C9_IsCoin(req'[s].extracted)
                     => /\ after = before
                        /\ C9_IsCoin(before) => req'[s].coinName = before
                        /\ ~C9_IsCoin(before) => ~C9_IsCoin(req'[s].coinName)
      /\ \A u \in UserIds :
          conversationMemory'[u].lastCoin # conversationMemory[u].lastCoin =>
            \E s \in Slots :
              /\ C9_ExtractionReturns(s) /\ C9_IsCoin(req'[s].extracted)
              /\ u = (IF req[s].authHeader = "tokA" THEN "tokA" ELSE "ip1") ]_vars

\* after a turn that named btc, a later request of the same user, alone in
\* flight, whose extraction found no coin goes on with btc
C9_Witness ==
  \E s \in Slots :
    /\ req[s].pc \notin {"idle", "extract", "done"}
    /\ \A t \in Slots \ {s} : req[t].pc = "idle"
    /\ arrived = 2
    /\ req[s].extracted = Null /\ req[s].coinName = "btc"
    /\ conversationMemory[UserIdOf(req[s].authHeader)].lastCoin = "btc"

\* the cost of a BUY as a fraction
C10_Cost(s) ==
  IF \E i \in 1..Len(Clean(s)) : Clean(s)[i] \in {"dollar", "usd", "worth"}
  THEN [num |-> Amount(s), den |-> 1]
  ELSE [num |-> req[s].quantity.num * req[s].cryptoData.price, den |-> req[s].quantity.den]
\* C10: the handler holds no lock: each BUY whose POST is in flight passed
\* the balance check against the wallet that request itself fetched, also
\* while another BUY of the same user is at its POST.
C10_EachValidAlone ==
  \A s \in Slots :
    IsBuy(s) /\ req[s].pc = "post" =>
      /\ req[s].wallet.found
      /\ C10_Cost(s).num <= req[s].wallet.balance * C10_Cost(s).den

\* two BUYs of tokA for the same coin are both at their POST, each within
\* the balance both fetched, their costs together above it
C10_Witness ==
  /\ \A s \in Slots : IsBuy(s) /\ req[s].pc = "post" /\ req[s].authHeader = "tokA"
  /\ req["r1"].orderData.coinId = req["r2"].orderData.coinId
  /\ req["r1"].wallet = req["r2"].wallet
  /\ C10_Cost("r1").den = 1 /\ C10_Cost("r2").den = 1
  /\ C10_Cost("r1").num + C10_Cost("r2").num > req["r1"].wallet.balance

\* the published_at stamps of a reply's items fall strictly from first to last
C11_Descending(items) == \A i, j \in 1..Len(items) : i < j => items[i] > items[j]
\* C11: a request whose message holds a news keyword ends with status 200
\* and either the list reply over at most 5 items in descending
\* published_at order, or the fixed no-news reply when the query returned
\* no item.
C11_NewsReply ==
  \A s \in Slots :
    Done(s) /\ req[s].message.kind = "string" /\ C6_News(s) =>
      /\ req[s].status = 200
      /\ \/ /\ req[s].reply = NewsList
            /\ Len(req[s].newsItems) \in 1..5
            /\ C11_Descending(req[s].newsItems)
         \/ /\ req[s].reply = NoNews
            /\ req[s].newsItems = <<>>

\* the request went through the direct branch; the intents answered from it
C12_Direct(s) == req[s].branch = "direct" \/ "intent" \in req[s].calls
C12_Templated == {"price", "market_cap", "volume", "change"}
C12_Classified(s) == "intent" \in req[s].calls /\ req[s].pc # "intent"
\* C12: in the direct branch, a lookup that finds no data is answered with
\* the no-data reply, without the classifier or the generative model; with
\* data found, a classification of price, market_cap, volume or change is
\* answered with that intent's template and the generative model is never
\* called; a classification of general, any text outside the closed set and
\* a classifier failure give the intent general and the request goes on in
\* the default path, where its 200 reply is the generated one; and nothing
\* else falls through.
C12_DirectBranch ==
  \A s \in Slots :
    C12_Direct(s) =>
      /\ Done(s) /\ req[s].error = "" /\ ~req[s].cryptoData.found =>
            /\ req[s].status = 200 /\ req[s].reply = NoData
            /\ req[s].calls \cap {"intent", "generate"} = {}
      /\ C12_Classified(s) =>
            /\ req[s].cryptoData.found
            /\ req[s].intentText \in {"Price", "price"} => req[s].intent = "price"
            /\ req[s].intentText \in {"market_cap", "volume", "change"}
                  => req[s].intent = req[s].intentText
            /\ req[s].intent \in C12_Templated =>
                  /\ Done(s) /\ req[s].status = 200 /\ req[s].reply = req[s].intent
                  /\ req[s].branch = "direct"
                  /\ "generate" \notin req[s].calls
            /\ req[s].intentText \in {"<error>", "general", "other"} =>
                  /\ req[s].intent = "general"
                  /\ req[s].branch = "default"
                  /\ req[s].pc \in {"context", "details", "generate", "done"}
                  /\ req[s].status = 200 => req[s].reply = Generated
            /\ req[s].branch = "default" => req[s].intent = "general"

\* a request whose classifier answered outside the closed set was answered
\* by the generative model
C12_Witness ==
  \E s \in Slots :
    /\ Done(s) /\ req[s].intentText = "other" /\ req[s].cryptoData.found
    /\ req[s].status = 200 /\ req[s].reply = Generated

\* the message holds one of the sensitive keywords
C13_Sensitive(s) ==
  \E i \in 1..Len(Clean(s)) :
    Clean(s)[i] \in {"profile", "portfolio", "orders", "wallet", "transaction"}
\* C13: a request without credential never calls the trading backend
\* (profile, portfolio or wallet read, order POST); and a request in the
\* default path has read profile, portfolio or wallet only if it carries a
\* credential and its message holds a sensitive keyword.
C13_AccountCallsNeedCredential ==
  \A s \in Slots :
    /\ req[s].authHeader # "tokA" =>
          req[s].calls \cap AccountCalls = {} /\ req[s].posts = 0
    /\ req[s].branch = "default" /\ req[s].calls \cap {"profile", "portfolio", "wallet"} # {} =>
          req[s].authHeader = "tokA" /\ C13_Sensitive(s)

\* a request without credential whose message holds a sensitive keyword was
\* answered by the generative model
C13_Witness ==
  \E s \in Slots :
    /\ req[s].authHeader # "tokA" /\ C13_Sensitive(s)
    /\ Done(s) /\ req[s].reply = Generated /\ "generate" \in req[s].calls

\* the user a request is keyed by, and the step that ends request s
C14_Owner(r) == IF r.authHeader = "tokA" THEN "tokA" ELSE "ip1"
C14_Ends(s) == req[s].pc # "done" /\ req'[s].pc = "done"
\* C14 as stated: history and lastCoin of a user change only in the step
\* that completes the reply of a request of that user.
C14_MutatedAfterReply ==
  [][ \A u \in UserIds :
        \/ /\ conversationMemory'[u].history = conversationMemory[u].history
           /\ conversationMemory'[u].lastCoin = conversationMemory[u].lastCoin
        \/ \E s \in Slots : C14_Ends(s) /\ C14_Owner(req'[s]) = u ]_vars

\* C14, amended: the history of a user changes only in the step that ends a
\* request of that user with a 200 reply; lastCoin changes only in the step
\* at which the coin extraction of a request of that user returns, and
\* becomes the extracted coin; a session comes to exist only in the step
\* that receives a request of that user; and the step that ends a request
\* with 400 or 500 changes no session at all.
C14_SessionWrites ==
  [][ /\ \A u \in UserIds :
          /\ conversationMemory'[u].history # conversationMemory[u].history =>
                \E s \in Slots :
                  C14_Ends(s) /\ req'[s].status = 200 /\ C14_Owner(req'[s]) = u
          /\ conversationMemory'[u].lastCoin # conversationMemory[u].lastCoin =>
                \E s \in Slots :
                  /\ req[s].pc = "extract" /\ req'[s].pc # "extract"
                  /\ C14_Owner(req'[s]) = u
                  /\ conversationMemory'[u].lastCoin = req'[s].extracted
          /\ conversationMemory'[u].exists # conversationMemory[u].exists =>
                \E s \in Slots :
                  req[s].pc = "idle" /\ req'[s].pc = "extract" /\ C14_Owner(req'[s]) = u
      /\ \A s \in Slots :
          C14_Ends(s) /\ req'[s].status \in {400, 500} =>
            conversationMemory' = conversationMemory ]_vars

\* the only request so far ended with 500 after its extraction returned btc:
\* the session holds btc as lastCoin and an empty history
C14_Witness ==
  \E s \in Slots :
    /\ arrived = 1 /\ Done(s) /\ req[s].status = 500 /\ req[s].extracted = "btc"
    /\ conversationMemory[C14_Owner(req[s])].lastCoin = "btc"
    /\ conversationMemory[C14_Owner(req[s])].history = <<>>

\* the last n turns of a history, a turn being a User entry and its Bot entry
C15_LastTurns(h, n) == IF Len(h) > 2 * n THEN SubSeq(h, Len(h) - 2 * n + 1, Len(h)) ELSE h
\* C15: the step in which a request builds its prompt puts into the history
\* block the most recent 10 turns of its user's session, or all of them when
\* fewer than 10 are stored.
C15_PromptHistory ==
  [][ \A s \in Slots :
        req[s].pc # "generate" /\ req'[s].pc = "generate" =>
          req'[s].conversationHistory =
            C15_LastTurns(conversationMemory[IF req'[s].authHeader = "tokA" THEN "tokA" ELSE "ip1"].history, 10) ]_vars

\* request t is in flight, past its coin extraction, for the user of request s
C16_Overlaps(s, t) ==
  /\ s # t
  /\ req[t].pc \notin {"idle", "extract", "done"}
  /\ req[s].authHeader = req[t].authHeader
\* C16: when the coin extraction of a request returns while another request
\* of the same user is in flight past its own extraction, a returned coin
\* becomes lastCoin whatever the other request wrote before, and a request
\* without a coin of its own leaves lastCoin alone and goes on with the coin
\* lastCoin holds at that moment; the other request keeps the coin it had
\* resolved.
C16_LastWriterWins ==
  [][ \A s, t \in Slots :
        C16_Overlaps(s, t) /\ req[s].pc = "extract" /\ req'[s].pc # "extract" =>
          LET u == IF req[s].authHeader = "tokA" THEN "tokA" ELSE "ip1"
              held == conversationMemory[u].lastCoin
              got == req'[s].extracted
          IN  /\ got \in {"btc", "doge"} =>
                    conversationMemory'[u].lastCoin = got /\ req'[s].coinName = got
              /\ got \notin {"btc", "doge"} =>
                    /\ conversationMemory'[u].lastCoin = held
                    /\ held \in {"btc", "doge"} => req'[s].coinName = held
              /\ req'[t].coinName = req[t].coinName ]_vars

\* of the first two requests of a user, both in flight, one extracted no
\* coin and goes on with the coin the other one extracted
C16_Witness ==
  \E s, t \in Slots :
    /\ arrived = 2 /\ C16_Overlaps(s, t) /\ req[s].pc \notin {"idle", "extract", "done"}
    /\ req[s].extracted = Null /\ req[s].coinName = "btc"
    /\ req[t].extracted = "btc"
    /\ conversationMemory["tokA"].lastCoin = "btc"

\* a history made of whole turns: User then Bot of the same turn, the turns
\* consecutive
C17_Paired(h) ==
  /\ Len(h) % 2 = 0
  /\ \A i \in 1..Len(h) :
       /\ h[i].who = (IF i % 2 = 1 THEN "User" ELSE "Bot")
       /\ i % 2 = 0 => h[i].turn = h[i - 1].turn
       /\ i > 2 => h[i].turn = h[i - 2].turn + 1
\* C17: under every interleaving a history is a sequence of whole turns,
\* even in length, alternating User and Bot; a step that changes a history
\* adds one new turn, both its entries at once at the end, keeps every turn
\* that was stored, in order, except for whole turns dropped from the front,
\* and drops those only to keep the length at 20.
C17_PairAppend ==
  /\ [](\A u \in UserIds : C17_Paired(conversationMemory[u].history))
  /\ [][ \A u \in UserIds :
           LET h == conversationMemory[u].history
               h2 == conversationMemory'[u].history
               cut == Len(h) + 2 - Len(h2)
           IN  h2 # h =>
                 /\ cut \in {0, 2} /\ (cut = 2 => Len(h2) = 20)
                 /\ \A i \in 1..(Len(h2) - 2) : h2[i] = h[i + cut]
                 /\ h2[Len(h2) - 1].who = "User" /\ h2[Len(h2)].who = "Bot"
                 /\ h2[Len(h2)].turn = (IF Len(h) = 0 THEN 1 ELSE h[Len(h)].turn + 1)
                 /\ h2[Len(h2) - 1].turn = h2[Len(h2)].turn ]_vars

\* a request was answered while another request of the same user is in
\* flight, and the history holds its turn whole, as the tenth and last
C17_Witness ==
  \E s, t \in Slots :
    /\ s # t /\ req[s].authHeader = "tokA" /\ req[t].authHeader = "tokA"
    /\ Done(s) /\ req[s].status = 200
    /\ req[t].pc \notin {"idle", "done"}
    /\ Len(conversationMemory["tokA"].history) = 20
    /\ conversationMemory["tokA"].history[19] = [who |-> "User", turn |-> 10]
    /\ conversationMemory["tokA"].history[20] = [who |-> "Bot", turn |-> 10]

\* C18: a request in flight has sent no response and a finished one exactly
\* one, with status 400, 500 or 200; the step that ends a request with 200
\* adds exactly one turn to its user's history and the step that ends one
\* with 400 or 500 adds none; and, every collaborator call returning or
\* failing, every request received is eventually answered.
C18_OneResponse ==
  /\ [](\A s \in Slots :
          /\ req[s].responses = (IF Done(s) THEN 1 ELSE 0)
          /\ Done(s) <=> req[s].status \in {200, 400, 500}
          /\ ~Done(s) => req[s].status = 0)
  /\ [][ \A s \in Slots :
           req[s].pc # "done" /\ req'[s].pc = "done" =>
             LET u == IF req'[s].authHeader = "tokA" THEN "tokA" ELSE "ip1"
                 h == conversationMemory[u].history
                 h2 == conversationMemory'[u].history
             IN  /\ req'[s].status = 200 =>
                       /\ h2 # <<>> /\ h2[Len(h2)].who = "Bot"
                       /\ h2[Len(h2)].turn = (IF h = <<>> THEN 1 ELSE h[Len(h)].turn + 1)
                       /\ Len(h2) >= 2 /\ h2[Len(h2) - 1].turn = h2[Len(h2)].turn
                       /\ Len(h2) >= 4 => h2[Len(h2) - 2] = h[Len(h)]
                 /\ req'[s].status \in {400, 500} => h2 = h ]_vars
  /\ \A s \in Slots : (req[s].pc \notin {"idle", "done"}) ~> Done(s)

\* the second request received has been answered with 200, its one
\* response, and its turn is the only one in its user's history
C18_Witness ==
  \E s \in Slots :
    /\ arrived = 2 /\ Done(s) /\ req[s].status = 200 /\ req[s].responses = 1
    /\ Len(conversationMemory[UserIdOf(req[s].authHeader)].history) = 2

\* the identity that keys request s, whose step this is
C19_Owner(s) ==
  LET h == IF req[s].pc = "idle" THEN req'[s].authHeader ELSE req[s].authHeader
  IN  IF h = "<undefined>" THEN "ip1" ELSE h
\* C19: a step of a request keyed by identity A neither creates nor changes
\* the session of any other identity B: the history of B and the lastCoin
\* that B's session yields stay as they were; and a request that extracted
\* no coin goes on with nothing but the lastCoin stored under its own
\* identity.
C19_CrossUserFrame ==
  [][ \A s \in Slots :
        req'[s] # req[s] =>
          /\ \A b \in DOMAIN conversationMemory \ {C19_Owner(s)} :
                /\ conversationMemory'[b].exists = conversationMemory[b].exists
                /\ conversationMemory'[b].history = conversationMemory[b].history
                /\ conversationMemory[b].exists =>
                     LastCoin(conversationMemory', b) = LastCoin(conversationMemory, b)
          /\ req[s].pc = "extract" /\ req'[s].extracted \notin {"btc", "doge"} =>
                req'[s].coinName \in
                  {req'[s].extracted, conversationMemory[C19_Owner(s)].lastCoin} ]_vars

====
